---- MODULE Spec2Model ----
(***************************************************************************)
(* The SPDX SBOM generator of src/lib/utils/sbom-spdx.js: the breadth      *)
(* first walk of SBOM.exec over an Arborist tree (getChildren, visit), the *)
(* error gate, and the document built by spdxOutput.                       *)
(*                                                                         *)
(* Strings that the code inspects character by character (package ids,    *)
(* SPDX ids) are sequences of one-character strings.                       *)
(***************************************************************************)
EXTENDS Integers, Sequences, FiniteSets, TLC

VARIABLES
  edgesOut,           \* node -> its edgesOut map, as the sequence of its values
  omit,               \* npm.flatOptions.omit
  workspacesEnabled,  \* npm.flatOptions.workspacesEnabled
  wsSelected,         \* this.workspaceNames is non-empty
  queue,              \* treeverse's queue
  current,            \* the entry visited whose getChildren is pending (else <<>>)
  seen,               \* treeverse's seen map (keyed by object): the real nodes in it
  annInvalid,         \* the nodes carrying the _invalid symbol
  annType,            \* node -> its _type symbol ("" when unset)
  seenNodes,          \* the seenNodes Map, in insertion order
  errors,             \* the errors Set, in insertion order
  pc,                 \* "walk" (breadth's loop), "children" (visit has resolved,
                      \* getChildren is pending), "done" (exec returned or
                      \* threw), "off"
  outcome,            \* "none", "output", "ESBOMPROBLEMS", "TypeError"
  message,            \* the lines of the thrown ESBOMPROBLEMS error
  response,           \* #response: <<>> or <<the document>>
  outputs,            \* the documents handed to npm.output, oldest first
  visits,             \* node -> number of calls of visit on it
  expands,            \* node -> number of completed getChildren calls on it
  second,             \* this is the second exec on the same SBOM object
  prev,               \* #response as the first exec left it (<<>> in the first)
  idA, idB,           \* two package identifiers
  outA, outB,         \* their SPDX ids
  idpc                \* "off", "ready", "applied"

vars == <<edgesOut, omit, workspacesEnabled, wsSelected, queue, current, seen, annInvalid,
          annType, seenNodes, errors, pc, outcome, message, response, outputs,
          visits, expands, second, prev, idA, idB, outA, outB, idpc>>

walkVars == <<edgesOut, omit, workspacesEnabled, wsSelected, queue, current, seen, annInvalid,
              annType, seenNodes, errors, pc, outcome, message, response, outputs,
              visits, expands, second, prev>>

idVars == <<idA, idB, outA, outB, idpc>>

\* ---------------------------------------------------------------- bounds

\* The most edges a tree has.
MaxEdges == 3
\* The most edges of a tree the resolver flagged invalid.
MaxInvalid == 1
\* The most characters of a scope or of a package name.
MaxName == 3

\* ------------------------------------------------------------ the tree

NoNode == "none"

\* The installed layout: the project root, node_modules/{a,b,q}, a second
\* copy of q@2 nested under a, and a workspace w (link and target).
Nodes == {"R", "A", "B", "Q", "P", "L", "T"}

pkgid(n) ==
  CASE n = "R" -> <<"r", "@", "1">>
    [] n = "A" -> <<"a", "@", "1">>
    [] n = "B" -> <<"b", "@", "1">>
    [] n = "Q" -> <<"q", "@", "2">>
    [] n = "P" -> <<"q", "@", "2">>
    [] n = "L" -> <<"w", "@", "1">>
    [] n = "T" -> <<"w", "@", "1">>

location(n) ==
  CASE n = "R" -> ""
    [] n = "A" -> "node_modules/a"
    [] n = "B" -> "node_modules/b"
    [] n = "Q" -> "node_modules/q"
    [] n = "P" -> "node_modules/a/node_modules/q"
    [] n = "L" -> "node_modules/w"
    [] n = "T" -> "packages/w"

path(n) ==
  CASE n = "R" -> "/r"
    [] n = "A" -> "/r/node_modules/a"
    [] n = "B" -> "/r/node_modules/b"
    [] n = "Q" -> "/r/node_modules/q"
    [] n = "P" -> "/r/node_modules/a/node_modules/q"
    [] n = "L" -> "/r/node_modules/w"
    [] n = "T" -> "/r/packages/w"

\* The node whose children map holds n.
parentOf(n) ==
  CASE n \in {"A", "B", "Q", "L"} -> "R"
    [] n = "P" -> "A"
    [] OTHER -> NoNode

isRoot(n) == n = "R"
isProjectRoot(n) == n = "R"
isLink(n) == n = "L"
target(n) == IF n = "L" THEN "T" ELSE n

\* Where a dependency name resolves from a node: the nearest node_modules.
Resolves ==
  { <<"R", "a", "A">>, <<"R", "b", "B">>, <<"R", "q", "Q">>, <<"R", "w", "L">>,
    <<"R", "m", NoNode>>,
    <<"A", "b", "B">>, <<"A", "q", "P">>,
    <<"B", "a", "A">>,
    <<"T", "a", "A">> }

\* The kinds an edge of that name may have: dev edges leave the root only.
EdgeTypes(from, name) ==
  IF name = "w" THEN {"workspace"}
  ELSE IF name = "m" THEN {"prod", "dev", "optional", "peerOptional"}
  ELSE IF from = "R" THEN (IF name = "q" THEN {"prod"} ELSE {"prod", "dev"})
  ELSE IF from = "A" THEN {"prod", "optional"}
  ELSE IF from = "B" THEN {"peer"}
  ELSE {"prod"}

Edge(from, name, type, to, invalid) ==
  [from |-> from, name |-> name, spec |-> <<"^", "2">>, type |-> type,
   to |-> to, invalid |-> invalid]

CandidateEdges ==
  UNION { { Edge(r[1], r[2], t, r[3], inv) :
              t \in EdgeTypes(r[1], r[2]),
              inv \in IF r[3] = NoNode \/ r[2] = "w" THEN {FALSE} ELSE BOOLEAN }
          : r \in Resolves }

\* edge.optional and edge.missing, as Arborist derives them.
EdgeOptional(e) == e.type \in {"optional", "peerOptional"}
EdgeMissing(e) == e.to = NoNode /\ ~EdgeOptional(e)

WellFormed(E) ==
  /\ \A e1, e2 \in E : (e1.from = e2.from /\ e1.name = e2.name) => e1 = e2
  /\ Cardinality({e \in E : e.invalid}) <= MaxInvalid

RECURSIVE EdgeSetsUpTo(_)
EdgeSetsUpTo(k) ==
  IF k = 0 THEN {{}}
  ELSE LET smaller == EdgeSetsUpTo(k - 1)
       IN  smaller \cup
           { s \cup {e} : s \in {x \in smaller : Cardinality(x) = k - 1},
                          e \in CandidateEdges }

Trees == {E \in EdgeSetsUpTo(MaxEdges) : WellFormed(E)}

Range(s) == {s[i] : i \in 1..Len(s)}

\* The order in which a node's edges are inserted in its edgesOut map: the
\* workspace edges, then the peer, prod, optional and dev dependencies.
KindOrder == <<"workspace", "peer", "peerOptional", "prod", "optional", "dev">>
KindRank(t) == CHOOSE i \in 1..Len(KindOrder) : KindOrder[i] = t

\* The edges of the tree E that leave n.
EdgesFrom(E, n) == {e \in E : e.from = n}

\* The orders a map of the values S can iterate in.
Perms(S) ==
  {p \in [1..Cardinality(S) -> S] : \A i, j \in 1..Cardinality(S) : p[i] = p[j] => i = j}

\* The insertion orders of an edgesOut map with the values S: one kind after
\* the other, and inside a kind the order of the keys in package.json.
LoadOrders(S) ==
  {p \in Perms(S) :
     \A i, j \in 1..Len(p) : i < j => KindRank(p[i].type) <= KindRank(p[j].type)}

AllEdges == UNION {Range(edgesOut[n]) : n \in Nodes}

RECURSIVE Closure(_, _)
\* The nodes reached from the set S along the pairs <<from, to>> of rel.
Closure(S, rel) ==
  LET more == S \cup {r[2] : r \in {x \in rel : x[1] \in S}}
  IN  IF more = S THEN S ELSE Closure(more, rel)

\* The nodes on disk: every edge's source and target, with the folders above
\* them and both ends of the workspace link.
Installed ==
  LET base == {"R"} \cup {e.from : e \in AllEdges}
                    \cup ({e.to : e \in AllEdges} \ {NoNode})
      up == {<<n, parentOf(n)>> : n \in {x \in Nodes : parentOf(x) # NoNode}}
            \cup {<<"L", "T">>, <<"T", "L">>}
  IN  Closure(base, up)

\* The pairs <<n, m>>: an edge of n (of its target, for a link) leads to m,
\* or n is a link and m its target.
EdgePairs ==
  UNION { {<<n, e.to>> : e \in {x \in Range(edgesOut[target(n)]) : x.to # NoNode}}
          : n \in Nodes }
  \cup {<<n, target(n)>> : n \in {x \in Nodes : isLink(x)}}

\* The nodes a chain of edges leads to from the root; a link takes its target
\* along.
Wanted == Closure({"R"}, EdgePairs)

\* node.extraneous: no chain of edges leads from the root to the node.
extraneous(n) == n \notin Wanted

\* The values of node.children: the installed nodes in the node_modules
\* folder of n; a Link has no children.
ChildSet(n) ==
  IF isLink(n) THEN {}
  ELSE LET inst == Installed
       IN  {c \in inst : parentOf(c) = n}

\* The orders [...node.children.values()] can come in: the folders of
\* node_modules are read concurrently, and the map iterates in the order in
\* which the reads completed, which varies from load to load.
children(n) == Perms(ChildSet(n))

\* node.isWorkspace: the root's workspace edge of that name leads to it.
isWorkspace(n) ==
  /\ ~isProjectRoot(n)
  /\ \E e \in Range(edgesOut["R"]) :
        e.type = "workspace" /\ e.to # NoNode /\ (e.to = n \/ target(e.to) = n)

\* arb.workspaceNodes(tree, this.workspaceNames): wsNodes.
wsNodes ==
  IF wsSelected
  THEN {target(e.to) : e \in {x \in Range(edgesOut["R"]) :
                                 x.type = "workspace" /\ x.to # NoNode}}
  ELSE {}

\* ------------------------------------------------------- identifiers

\* toSpdxID: strip one leading @, every / becomes ., every @ becomes -.
toSpdxID(id) ==
  LET name == IF Len(id) > 0 /\ id[1] = "@" THEN Tail(id) ELSE id
  IN  <<"SPDXRef-Package-">> \o
      [i \in 1..Len(name) |->
         IF name[i] = "/" THEN "." ELSE IF name[i] = "@" THEN "-" ELSE name[i]]

\* The collation rank of a character (punctuation, digits, letters).
CharOrder == <<"-", ".", "@", "/", "^", "1", "2", "a", "b", "m", "q", "r", "w">>
CharRank(c) == CHOOSE i \in 1..Len(CharOrder) : CharOrder[i] = c

RECURSIVE localeCompare(_, _)
\* localeCompare(a, b) of '@isaacs/string-locale-compare': -1, 0 or 1.
localeCompare(a, b) ==
  IF a = <<>> /\ b = <<>> THEN 0
  ELSE IF a = <<>> THEN -1
  ELSE IF b = <<>> THEN 1
  ELSE IF CharRank(Head(a)) < CharRank(Head(b)) THEN -1
  ELSE IF CharRank(Head(a)) > CharRank(Head(b)) THEN 1
  ELSE localeCompare(Tail(a), Tail(b))

\* sortAlphabetically: the comparator on the pkgid of two queue entries.
sortAlphabetically(x, y) == localeCompare(x.pkgid, y.pkgid)

RECURSIVE InsertSorted(_, _)
InsertSorted(x, s) ==
  IF s = <<>> THEN <<x>>
  ELSE IF sortAlphabetically(x, Head(s)) < 0 THEN <<x>> \o s
  ELSE <<Head(s)>> \o InsertSorted(x, Tail(s))

RECURSIVE SortKids(_)
\* Array.prototype.sort with sortAlphabetically: stable.
SortKids(s) ==
  IF s = <<>> THEN <<>>
  ELSE InsertSorted(s[Len(s)], SortKids(SubSeq(s, 1, Len(s) - 1)))

\* ------------------------------------------------------------ the walk

\* A queue entry: an Arborist node, or the object mapEdgesToNodes makes for a
\* missing edge (node = NoNode; missing holds the _missing symbol).
NodeItem(n) == [node |-> n, pkgid |-> pkgid(n), missing |-> <<>>, type |-> ""]

MissingItem(e) ==
  [node |-> NoNode, pkgid |-> <<e.name, "@">> \o e.spec,
   missing |-> pkgid(e.from), type |-> e.type]

\* filterBySelectedWorkspaces on one edge: "keep", "drop", or "throw" where
\* it reads edge.to.isWorkspace of an edge with no target.
filterBySelectedWorkspaces(e) ==
  IF ~workspacesEnabled /\ isProjectRoot(e.from) /\ e.to = NoNode THEN "throw"
  ELSE IF ~workspacesEnabled /\ isProjectRoot(e.from) /\ isWorkspace(e.to) THEN "drop"
  ELSE IF wsNodes = {} THEN "keep"
  ELSE IF isProjectRoot(e.from)
       THEN IF e.to # NoNode /\ isWorkspace(e.to) /\ target(e.to) \in wsNodes
            THEN "keep" ELSE "drop"
  ELSE "keep"

filterByEdgesTypes(e) == e.type \notin omit

\* The edges of a node that getChildren maps to nodes.
SurvivingEdges(n) ==
  SelectSeq(SelectSeq(edgesOut[target(n)],
                      LAMBDA e : filterBySelectedWorkspaces(e) = "keep"),
            filterByEdgesTypes)

\* getChildren throws: the workspace filter throws on one of the edges.
GetChildrenThrows(n) ==
  \E e \in Range(edgesOut[target(n)]) : filterBySelectedWorkspaces(e) = "throw"

\* mapEdgesToNodes: the node an edge yields.
mapEdgesToNodes(e) ==
  IF EdgeMissing(e) \/ (EdgeOptional(e) /\ e.to = NoNode)
  THEN MissingItem(e) ELSE NodeItem(e.to)

\* appendExtraneousChildren, values being [...node.children.values()].
appendExtraneousChildren(values, seenPaths) ==
  LET wanted == Wanted
      kids == SelectSeq(values,
                        LAMBDA c : path(c) \notin seenPaths /\ c \notin wanted)
  IN  [i \in 1..Len(kids) |-> NodeItem(kids[i])]

\* getChildren of a real node whose children map iterates as values.
getChildren(n, values) ==
  LET es == SurvivingEdges(n)
      mapped == [i \in 1..Len(es) |-> mapEdgesToNodes(es[i])]
      seenPaths == {path(mapped[i].node) :
                      i \in {j \in 1..Len(es) : mapped[j].node # NoNode}}
  IN  SortKids(mapped \o appendExtraneousChildren(values, seenPaths))

\* The _invalid symbols mapEdgesToNodes sets while n is expanded.
InvalidAfter(n) ==
  annInvalid \cup {e.to : e \in {x \in Range(SurvivingEdges(n)) :
                                   x.invalid /\ x.to # NoNode}}

\* The _type symbols after n is expanded: the last edge to a node wins.
TypeAfter(n) ==
  LET es == SurvivingEdges(n)
      hits(m) == {i \in 1..Len(es) : es[i].to = m}
      last(m) == CHOOSE i \in hits(m) : \A j \in hits(m) : j <= i
  IN  [m \in Nodes |-> IF hits(m) = {} THEN annType[m] ELSE es[last(m)].type]

\* findErrors
findErrors(item) ==
  (IF item.missing # <<>> /\ item.type \notin {"optional", "peerOptional"}
   THEN <<[kind |-> "missing", pkgid |-> item.pkgid, detail |-> item.missing]>>
   ELSE <<>>)
  \o
  (IF item.node # NoNode /\ item.node \in annInvalid
   THEN <<[kind |-> "invalid", pkgid |-> item.pkgid, detail |-> <<path(item.node)>>]>>
   ELSE <<>>)

RECURSIVE SetAddAll(_, _)
\* errors.add(line) for each line: a Set keeps the first insertion.
SetAddAll(set, lines) ==
  IF lines = <<>> THEN set
  ELSE SetAddAll(IF Head(lines) \in Range(set) THEN set ELSE Append(set, Head(lines)),
                 Tail(lines))

\* seenNodes.set(node.path, node): a placeholder has no path.
MapKey(item) == IF item.node = NoNode THEN "undefined" ELSE path(item.node)

MapSet(map, item) ==
  IF \E i \in 1..Len(map) : map[i].key = MapKey(item)
  THEN [i \in 1..Len(map) |->
          IF map[i].key = MapKey(item) THEN [key |-> MapKey(item), val |-> item]
          ELSE map[i]]
  ELSE Append(map, [key |-> MapKey(item), val |-> item])

\* [...seenNodes.values()].filter(node => !node[_missing]), as nodes.
FinalNodes(map) ==
  LET kept == SelectSeq(map, LAMBDA kv : kv.val.missing = <<>>)
  IN  [i \in 1..Len(kept) |-> kept[i].val.node]

\* -------------------------------------------------------- the document

DOCUMENT == <<"SPDXRef-DOCUMENT">>

\* toSpdxRelationship of an edge that has a target.
toSpdxRelationship(n, e) ==
  [spdxElementId |-> toSpdxID(pkgid(n)),
   relatedSpdxElement |-> toSpdxID(pkgid(e.to)),
   relationshipType |->
     CASE e.type = "peer" -> "HAS_PREREQUISITE"
       [] e.type = "optional" -> "OPTIONAL_DEPENDENCY_OF"
       [] e.type = "dev" -> "DEV_DEPENDENCY_OF"
       [] OTHER -> "DEPENDS_ON"]

\* A weaker filter, for comparison: it keeps every edge that has a target.
LinksToListedUnfiltered(nodes, e) == e.to # NoNode

\* The filter of spdxOutput on an edge: it links to a node of the list.
LinksToListed(nodes, e) ==
  e.to # NoNode /\ \E i \in 1..Len(nodes) : pkgid(nodes[i]) = pkgid(e.to)

\* A stricter variant, for comparison: the relationships leave out the edges of an omitted kind.
NodeRelationshipsNotOmitted(nodes, n) ==
  LET es == SelectSeq(edgesOut[n],
                      LAMBDA e : LinksToListed(nodes, e) /\ filterByEdgesTypes(e))
  IN  [i \in 1..Len(es) |-> toSpdxRelationship(n, es[i])]

\* The relationships of one node of the list.
NodeRelationships(nodes, n) ==
  LET es == SelectSeq(edgesOut[n], LAMBDA e : LinksToListed(nodes, e))
  IN  [i \in 1..Len(es) |-> toSpdxRelationship(n, es[i])]

RECURSIVE FlatRelationships(_, _)
FlatRelationships(nodes, k) ==
  IF k > Len(nodes) THEN <<>>
  ELSE NodeRelationships(nodes, nodes[k]) \o FlatRelationships(nodes, k + 1)

toSpdxItem(n) ==
  [SPDXID |-> toSpdxID(pkgid(n)), packageFileName |-> location(n),
   referenceLocator |-> pkgid(n)]

spdxOutput(nodes) ==
  LET rootNode == nodes[CHOOSE i \in 1..Len(nodes) :
                          isRoot(nodes[i]) /\ \A j \in 1..(i - 1) : ~isRoot(nodes[j])]
      childNodes == SelectSeq(nodes, LAMBDA n : ~isRoot(n))
      rootID == pkgid(rootNode)
  IN  [name |-> rootID,
       documentDescribes |-> <<toSpdxID(rootID)>>,
       packages |-> <<toSpdxItem(rootNode)>> \o
                    [i \in 1..Len(childNodes) |-> toSpdxItem(childNodes[i])],
       relationships |->
         <<[spdxElementId |-> DOCUMENT,
            relatedSpdxElement |-> toSpdxID(rootID),
            relationshipType |-> "DESCRIBES"]>>
         \o FlatRelationships(nodes, 1)]

\* An off-by-one variant, for comparison: the gate lets a single error through.
HasErrorsOffByOne(errs) == Len(errs) > 1

\* The error gate's test.
HasErrors(errs) == Len(errs) > 0

\* ------------------------------------------------------------- exec

OmitChoices == {{}, {"dev"}, {"optional"}}

\* #response of a new SBOM object.
NoDocument == <<>>

\* No entry is between visit and getChildren.
NoItem == <<>>

\* The state a call of exec starts the walk in: breadth() has pushed the
\* tree's root.
WalkStart ==
  /\ queue = <<NodeItem("R")>>
  /\ current = NoItem
  /\ seen = {}
  /\ annInvalid = {}
  /\ annType = [n \in Nodes |-> ""]
  /\ seenNodes = <<>>
  /\ errors = <<>>
  /\ pc = "walk"
  /\ outcome = "none"
  /\ message = <<>>
  /\ visits = [n \in Nodes |-> 0]
  /\ expands = [n \in Nodes |-> 0]

IdOff ==
  /\ idA = <<>> /\ idB = <<>> /\ outA = <<>> /\ outB = <<>> /\ idpc = "off"

Init ==
  /\ \E E \in Trees :
       \E oR \in LoadOrders(EdgesFrom(E, "R")), oA \in LoadOrders(EdgesFrom(E, "A")),
          oB \in LoadOrders(EdgesFrom(E, "B")), oT \in LoadOrders(EdgesFrom(E, "T")) :
         edgesOut = [n \in Nodes |->
                       CASE n = "R" -> oR [] n = "A" -> oA [] n = "B" -> oB
                         [] n = "T" -> oT [] OTHER -> <<>>]
  /\ omit \in OmitChoices
  /\ workspacesEnabled \in BOOLEAN
  \* -w <name> needs workspaces enabled and a workspace of that name
  /\ wsSelected \in IF workspacesEnabled /\ isWorkspace("L") THEN BOOLEAN ELSE {FALSE}
  /\ WalkStart
  /\ response = NoDocument
  /\ outputs = <<>>
  /\ second = FALSE
  /\ prev = NoDocument
  /\ IdOff

treeVars == <<edgesOut, omit, workspacesEnabled, wsSelected, second, prev>>
endVars == <<outcome, message, response, outputs>>

\* breadth: the entry at the head of the queue is an object already seen.
Skip ==
  /\ pc = "walk" /\ queue # <<>>
  /\ Head(queue).node # NoNode /\ Head(queue).node \in seen
  /\ queue' = Tail(queue)
  /\ UNCHANGED <<treeVars, endVars, idVars, current, seen, annInvalid, annType,
                 seenNodes, errors, pc, visits, expands>>

\* breadth: the entry at the head of the queue is new (a node not yet seen, or
\* the object made for a missing edge, which is always new): visit(node). Its
\* promise resolves in a later turn, and getChildren runs then.
Visit ==
  /\ pc = "walk" /\ queue # <<>>
  /\ LET item == Head(queue)
     IN  /\ item.node = NoNode \/ item.node \notin seen
         /\ seen' = IF item.node = NoNode THEN seen ELSE seen \cup {item.node}
         /\ errors' = SetAddAll(errors, findErrors(item))
         /\ seenNodes' = MapSet(seenNodes, item)
         /\ visits' = IF item.node = NoNode THEN visits
                      ELSE [visits EXCEPT ![item.node] = @ + 1]
         /\ current' = item
  /\ queue' = Tail(queue)
  /\ pc' = "children"
  /\ UNCHANGED <<treeVars, endVars, idVars, annInvalid, annType, expands>>

\* breadth: getChildren(node) on a node of the tree; its result joins the queue.
\* A run reads the children map of a node here and nowhere else, and expands a
\* node at most once: the order the load gave the map is drawn here.
GetChildrenNode ==
  /\ pc = "children"
  /\ current.node # NoNode
  /\ ~GetChildrenThrows(current.node)
  /\ annInvalid' = InvalidAfter(current.node)
  /\ annType' = TypeAfter(current.node)
  /\ \E values \in children(current.node) :
        queue' = queue \o getChildren(current.node, values)
  /\ expands' = [expands EXCEPT ![current.node] = @ + 1]
  /\ current' = NoItem
  /\ pc' = "walk"
  /\ UNCHANGED <<treeVars, endVars, idVars, seen, seenNodes, errors, visits>>

\* breadth: getChildren(node) throws in the workspace filter; the TypeError
\* rejects the walk and exec.
GetChildrenThrow ==
  /\ pc = "children"
  /\ current.node # NoNode
  /\ GetChildrenThrows(current.node)
  /\ current' = NoItem
  /\ pc' = "done"
  /\ outcome' = "TypeError"
  /\ UNCHANGED <<treeVars, idVars, message, response, outputs, queue, seen,
                 annInvalid, annType, seenNodes, errors, visits, expands>>

\* breadth: getChildren on the object made for a missing edge: it is no
\* Arborist.Node and has no children.
GetChildrenMissing ==
  /\ pc = "children"
  /\ current.node = NoNode
  /\ current' = NoItem
  /\ pc' = "walk"
  /\ UNCHANGED <<treeVars, endVars, idVars, queue, seen, annInvalid, annType,
                 seenNodes, errors, visits, expands>>

\* The walk is over and there are errors: exec throws ESBOMPROBLEMS.
GateThrow ==
  /\ pc = "walk" /\ queue = <<>>
  /\ HasErrors(errors)
  /\ outcome' = "ESBOMPROBLEMS"
  /\ message' = errors
  /\ pc' = "done"
  /\ UNCHANGED <<treeVars, idVars, queue, current, seen, annInvalid, annType,
                 seenNodes, errors, response, outputs, visits, expands>>

\* The walk is over with no error: buildResponse, then npm.output.
GateBuild ==
  /\ pc = "walk" /\ queue = <<>>
  /\ ~HasErrors(errors)
  /\ response' = <<spdxOutput(FinalNodes(seenNodes))>>
  /\ outputs' = Append(outputs, spdxOutput(FinalNodes(seenNodes)))
  /\ outcome' = "output"
  /\ pc' = "done"
  /\ UNCHANGED <<treeVars, idVars, queue, current, seen, annInvalid, annType,
                 seenNodes, errors, message, visits, expands>>

\* exec once more on the same SBOM object, over the same tree loaded afresh
\* (its children maps in any order), the keys of the dependency maps in
\* package.json in any order: #response and what npm.output has received
\* stay as the first call left them.
Rerun ==
  /\ pc = "done" /\ outcome = "output" /\ ~second
  /\ second' = TRUE
  /\ prev' = response
  /\ \E oR \in LoadOrders(Range(edgesOut["R"])), oA \in LoadOrders(Range(edgesOut["A"])),
        oB \in LoadOrders(Range(edgesOut["B"])), oT \in LoadOrders(Range(edgesOut["T"])) :
        edgesOut' = [edgesOut EXCEPT !["R"] = oR, !["A"] = oA, !["B"] = oB,
                                      !["T"] = oT]
  /\ queue' = <<NodeItem("R")>>
  /\ current' = NoItem
  /\ seen' = {}
  /\ annInvalid' = {}
  /\ annType' = [n \in Nodes |-> ""]
  /\ seenNodes' = <<>>
  /\ errors' = <<>>
  /\ pc' = "walk"
  /\ outcome' = "none"
  /\ message' = <<>>
  /\ visits' = [n \in Nodes |-> 0]
  /\ expands' = [n \in Nodes |-> 0]
  /\ UNCHANGED <<omit, workspacesEnabled, wsSelected, response, outputs, idVars>>

Next ==
  \/ Skip
  \/ Visit
  \/ GetChildrenNode
  \/ GetChildrenThrow
  \/ GetChildrenMissing
  \/ GateThrow
  \/ GateBuild
  \/ Rerun

Spec == Init /\ [][Next]_vars

\* -------------------------------------------- identifiers, on their own

NameChars == {"a", ".", "-"}

RECURSIVE NamesOfLen(_)
\* The names of k characters: a letter, then letters, dots and dashes.
NamesOfLen(k) ==
  IF k = 1 THEN {<<"a">>}
  ELSE {Append(s, c) : s \in NamesOfLen(k - 1), c \in NameChars}

PkgNames == UNION {NamesOfLen(k) : k \in 1..MaxName}

\* Package identifiers name@version and @scope/name@version.
PkgIds ==
  {nm \o <<"@", "1">> : nm \in PkgNames}
  \cup {<<"@">> \o sc \o <<"/">> \o nm \o <<"@", "1">> : sc \in PkgNames, nm \in PkgNames}

WalkOff ==
  /\ edgesOut = [n \in Nodes |-> <<>>]
  /\ omit = {}
  /\ workspacesEnabled = TRUE
  /\ wsSelected = FALSE
  /\ queue = <<>>
  /\ current = NoItem
  /\ seen = {}
  /\ annInvalid = {}
  /\ annType = [n \in Nodes |-> ""]
  /\ seenNodes = <<>>
  /\ errors = <<>>
  /\ pc = "off"
  /\ outcome = "none"
  /\ message = <<>>
  /\ response = NoDocument
  /\ outputs = <<>>
  /\ visits = [n \in Nodes |-> 0]
  /\ expands = [n \in Nodes |-> 0]
  /\ second = FALSE
  /\ prev = NoDocument

InitId ==
  /\ WalkOff
  /\ idA \in PkgIds
  /\ idB \in PkgIds
  /\ outA = <<>> /\ outB = <<>>
  /\ idpc = "ready"

\* toSpdxID on the two identifiers.
ApplyToSpdxID ==
  /\ idpc = "ready"
  /\ outA' = toSpdxID(idA)
  /\ outB' = toSpdxID(idB)
  /\ idpc' = "applied"
  /\ UNCHANGED <<walkVars, idA, idB>>

NextId == ApplyToSpdxID

SpecId == InitId /\ [][NextId]_vars

\* ---------------------------------------------------------- properties

\* The node list handed to buildResponse, and the document built from it.
Listed == FinalNodes(seenNodes)
ListedSet == Range(Listed)
Packages == response[1].packages
Relationships == response[1].relationships
WalkCompleted == pc = "done" /\ outcome # "TypeError"

\* The edge passed the walker's workspace and omit filters.
Survives(e) == filterBySelectedWorkspaces(e) = "keep" /\ filterByEdgesTypes(e)

\* The pairs <<n, m>>: expanding n enqueues the tree node m.
FollowPairs ==
  UNION { {<<n, e.to>> : e \in {x \in Range(edgesOut[target(n)]) :
                                  x.to # NoNode /\ Survives(x)}}
          \cup {<<n, c>> : c \in {x \in ChildSet(n) : extraneous(x)}}
          : n \in Nodes }

\* The tree nodes reachable from the root through surviving edges and
\* extraneous children.
WalkReach == Closure({"R"}, FollowPairs)

MissingLine(e) ==
  [kind |-> "missing", pkgid |-> <<e.name, "@">> \o e.spec, detail |-> pkgid(e.from)]

InvalidLine(n) == [kind |-> "invalid", pkgid |-> pkgid(n), detail |-> <<path(n)>>]

\* C1: in every document built, each relationship other than the one
\* DESCRIBES record has a source and a target that are the SPDXID of a record
\* of the packages list, and the DESCRIBES record, the first, relates the
\* document to the root package's record.
C1_ReferentialIntegrity ==
  outcome = "output" =>
    LET ids == {Packages[i].SPDXID : i \in 1..Len(Packages)}
    IN  /\ Len(Relationships) >= 1
        /\ Relationships[1].relationshipType = "DESCRIBES"
        /\ Relationships[1].spdxElementId = DOCUMENT
        /\ Packages[1].referenceLocator = pkgid("R")
        /\ Relationships[1].relatedSpdxElement = Packages[1].SPDXID
        /\ \A i \in 2..Len(Relationships) :
              /\ Relationships[i].relationshipType # "DESCRIBES"
              /\ Relationships[i].spdxElementId \in ids
              /\ Relationships[i].relatedSpdxElement \in ids

\* C1's case: a document with relationships, built from a list one of whose
\* nodes has an edge to a node outside the list.
C1_Witness ==
  /\ outcome = "output"
  /\ Len(Relationships) >= 3
  /\ \E n \in ListedSet : \E e \in Range(edgesOut[n]) :
        e.to # NoNode /\ e.to \notin ListedSet

\* C2 (as claimed): a missing non-optional edge of a visited node makes exec
\* fail with ESBOMPROBLEMS, its message holding the edge's 'missing' line,
\* whatever the omit set and the workspace setting.
C2_MissingAlwaysFails ==
  pc = "done" =>
    \A n \in seen : \A e \in Range(edgesOut[target(n)]) :
      EdgeMissing(e) =>
        outcome = "ESBOMPROBLEMS" /\ MissingLine(e) \in Range(message)

\* C3 (as claimed): no two records of the packages list have the same
\* package identifier.
C3_NoDuplicatePkgid ==
  outcome = "output" =>
    \A i, j \in 1..Len(Packages) :
      Packages[i].referenceLocator = Packages[j].referenceLocator => i = j

\* C4 (as claimed): a node that edges lead to from the root, but only through
\* edges the filters removed (the walk reaches neither it nor a link to it), is
\* never visited, has no package record, and no edge from or to it has a
\* relationship record.
C4_FilteredNodeAbsent ==
  \A x \in Installed :
    (~extraneous(x) /\ x \notin WalkReach \cup {target(n) : n \in WalkReach}) =>
      /\ x \notin seen
      /\ outcome = "output" =>
           /\ \A i \in 1..Len(Packages) : Packages[i].packageFileName # location(x)
           /\ \A n \in ListedSet : \A e \in Range(edgesOut[n]) :
                e.to = x => toSpdxRelationship(n, e) \notin Range(Relationships)
           /\ \A e \in Range(edgesOut[x]) :
                e.to # NoNode => toSpdxRelationship(x, e) \notin Range(Relationships)

\* C5: once the walk has completed, a document is built and output exactly
\* when the error set is empty; with errors exec throws ESBOMPROBLEMS with all
\* the error lines, and the run builds and outputs nothing: the response and
\* the output sink are as the run found them (empty in a first run). A run
\* builds and outputs nothing before its walk completes.
C5_ErrorGate ==
  /\ pc \in {"walk", "children"} =>
       response = prev /\ outputs = prev /\ outcome = "none"
  /\ WalkCompleted =>
       /\ outcome \in {"output", "ESBOMPROBLEMS"}
       /\ outcome = "output" <=> errors = <<>>
       /\ outcome = "output" =>
            /\ response = <<spdxOutput(Listed)>>
            /\ outputs = prev \o response
            /\ message = <<>>
       /\ outcome = "ESBOMPROBLEMS" =>
            /\ message = errors
            /\ response = prev
            /\ outputs = prev

\* C5's case: exec threw the aggregated error with two error lines.
C5_Witness ==
  pc = "done" /\ outcome = "ESBOMPROBLEMS" /\ Len(message) >= 2

\* The pairs <<n, e>>: e is an edge with a target in the edgesOut of the
\* listed node n.
ListedEdges ==
  {ne \in ListedSet \X AllEdges : ne[2].from = ne[1] /\ ne[2].to # NoNode}

RecordsOf(P) == {toSpdxRelationship(ne[1], ne[2]) : ne \in P}

RestOfRelationships == Range(Tail(Relationships))

\* The listed edges the walker followed to a listed node.
FollowedEdges == {ne \in ListedEdges : Survives(ne[2]) /\ ne[2].to \in ListedSet}

\* C6 (as claimed): apart from DESCRIBES, the relationships are exactly one
\* record per edge of a listed node that passed the walker's filters and whose
\* target is in the final node set.
C6_OnePerSurvivingEdge ==
  outcome = "output" =>
    /\ RestOfRelationships = RecordsOf(FollowedEdges)
    /\ Len(Relationships) = 1 + Cardinality(FollowedEdges)

\* C6 (amended): apart from DESCRIBES, the relationships are exactly one record
\* per edge of a listed node's edgesOut whose target has the pkgid of a listed
\* node, whether or not the walker's filters removed the edge; every edge the
\* walker followed from a listed node to a listed node has its record.
C6_OnePerEdgeToListedPkgid ==
  outcome = "output" =>
    LET listedIds == {pkgid(m) : m \in ListedSet}
        toListed == {ne \in ListedEdges : pkgid(ne[2].to) \in listedIds}
    IN  /\ RestOfRelationships = RecordsOf(toListed)
        /\ Len(Relationships) = 1 + Cardinality(toListed)
        /\ RecordsOf(FollowedEdges) \subseteq RestOfRelationships

\* C6's case: the document holds the record of an edge the omit filter removed.
C6_Witness ==
  /\ outcome = "output"
  /\ \E n \in ListedSet : \E e \in Range(edgesOut[n]) :
        /\ ~filterByEdgesTypes(e)
        /\ e.to \in ListedSet
        /\ toSpdxRelationship(n, e) \in RestOfRelationships

\* C7 (as claimed): two package identifiers with the same SPDX id are the same.
C7_ToSpdxIDInjective ==
  idpc = "applied" => (outA = outB => idA = idB)

\* The tree has no cycle of edges, and no missing or invalid edge.
Acyclic ==
  \A n \in Nodes : n \notin Closure({r[2] : r \in {x \in EdgePairs : x[1] = n}}, EdgePairs)

NoMissingOrInvalid == \A e \in AllEdges : e.to # NoNode /\ ~e.invalid

\* C8 (as claimed): over an acyclic tree with no missing or invalid edge, a
\* second run whose edgesOut and children maps iterate in another order yields
\* the same packages list and the same relationships list.
C8_OrderIndependent ==
  (second /\ outcome = "output" /\ Acyclic /\ NoMissingOrInvalid) =>
    /\ Packages = prev[1].packages
    /\ Relationships = prev[1].relationships

\* C9 (as claimed, for the runs whose walk completes): an invalid edge of a
\* visited node that survives the filters puts the 'invalid' line of its
\* target in the error set and makes exec throw ESBOMPROBLEMS.
C9_InvalidCollected ==
  WalkCompleted =>
    \A n \in seen : \A e \in Range(edgesOut[target(n)]) :
      (e.invalid /\ Survives(e)) =>
        outcome = "ESBOMPROBLEMS" /\ InvalidLine(e.to) \in Range(errors)

\* C10 (as claimed): when exec is over, every tree node reachable from the
\* root through surviving edges and extraneous children was visited once and
\* expanded once, and no node more than once.
C10_EachReachableOnce ==
  /\ \A n \in Nodes : visits[n] <= 1 /\ expands[n] <= 1
  /\ pc = "done" => \A n \in WalkReach : visits[n] = 1 /\ expands[n] = 1

\* The sort of getChildren erases the order of the children map: whatever the
\* order, getChildren of the node being expanded is the same list.
ChildOrderErased ==
  (pc = "children" /\ current.node # NoNode) =>
    \A v1, v2 \in children(current.node) :
      getChildren(current.node, v1) = getChildren(current.node, v2)

\* The walk covers the reachable nodes whenever getChildren does not throw.
WalkCoversReach ==
  /\ \A n \in Nodes : visits[n] <= 1 /\ expands[n] <= 1
  /\ WalkCompleted => \A n \in Nodes :
       /\ n \in WalkReach => visits[n] = 1 /\ expands[n] = 1
       /\ n \notin WalkReach => visits[n] = 0 /\ expands[n] = 0
  /\ pc = "walk" => (queue # <<>> \/ ENABLED (GateThrow \/ GateBuild))
  /\ pc = "children" <=> current # NoItem

====
